---- MODULE Spec2Model ----
(***************************************************************************)
(* libprobe: the ICMP echo engine (icmp.go) and the MTR orchestration      *)
(* built on it (MTRProber, hopStat).                                       *)
(*                                                                         *)
(* Spec      one MTRProber.Probe call: the ttl sweep, every probeHop being *)
(*           a complete ICMPProber.Probe call executed step by step.       *)
(* SpecICMP  direct ICMPProber.Probe calls on one prober.                  *)
(* SpecStat  one hopStat under arbitrary sequences of update calls.        *)
(* SpecID    goroutines calling Get on one IcmpID concurrently.            *)
(* SpecDial  TCPProber.Probe and HTTPProber.Probe calls.                   *)
(***************************************************************************)
EXTENDS Integers, Sequences, FiniteSets, TLC

(* ------------------------------ bounds --------------------------------- *)

\* largest MaxHops a caller configures explicitly
MaxCfgHops == 3
\* largest Count a caller configures
MaxCount == 3
\* largest elapsed time (in clock ticks) time.Since reports for one probe
MaxElapsed == 2
\* the rtt samples passed to update in SpecStat are 10ms, 20ms, ..., up to
\* MaxRTT * 10ms (durations of SpecStat are in milliseconds)
MaxRTT == 3
\* most probes of one sweep the network answers
MaxAnswers == 3
\* most inbound packets one receive loop discards before it returns
MaxDiscard == 1
\* largest Timeout (in clock ticks) a caller configures
MaxTimeout == 2
\* longest response body (in bytes) an HTTP server sends
MaxBody == 2
\* most update calls applied to the hopStat of SpecStat
MaxUpdates == 5
\* most direct ICMPProber.Probe calls of SpecICMP
MaxCalls == 2
\* the goroutines of SpecID, and the most Get calls each of them makes
NumGoroutines == 2
MaxGets == 2

(* ------------------------ program constants ---------------------------- *)

DefaultMaxHops == 30
DefaultTTL == 64
DefaultSeq == 1
IDModulus == 65535
\* the counter of IcmpID is a uint32: two limbs of 2^16 values each
Limb == 65536

\* a uint32 is kept as two 16-bit limbs <<high, low>>; Wide(n) is the small
\* number n held that way
Wide(n) == <<0, n>>

(* --------------------------- addresses --------------------------------- *)

\* IP addresses are small integers; 0 stands for the nil net.IP. Two IPv4
\* hosts and two IPv6 hosts, a router and a probed host of each family.
NilIP == 0
IPs  == {1, 9}
IPs6 == {21, 29}

\* net.IP.String(): the canonical text of an address.
IPString(ip) ==
    CASE ip = 1  -> "10.0.0.1"
      [] ip = 9  -> "10.0.0.9"
      [] ip = 21 -> "2001:db8::1"
      [] ip = 29 -> "2001:db8::9"
      [] OTHER   -> "<nil>"

\* net.ParseIP: several texts denote the same address, anything else is nil.
ParseIP(s) ==
    CASE s = "10.0.0.1"         -> 1
      [] s = "10.0.0.9"         -> 9
      [] s = "::ffff:10.0.0.9"  -> 9
      [] s = "2001:db8::1"      -> 21
      [] s = "2001:db8::9"      -> 29
      [] OTHER                  -> NilIP

\* net.IP.To4(): nil unless the address is an IPv4 address
To4(ip) == IF ip \in IPs THEN ip ELSE NilIP

\* the Address strings a caller passes
Addresses == {"10.0.0.9", "::ffff:10.0.0.9", "not-an-ip"}

(* ----------------------------- Target ---------------------------------- *)

GetCount(t) == IF t.Count = 0 THEN 1 ELSE t.Count

(* ----------------------------- hopStat --------------------------------- *)

\* the hopStat getOrCreateHopStat stores for a new address
NewHopStat(addr, n) ==
    [ttl |-> n, address |-> addr, lastRTT |-> 0, bestRTT |-> 0,
     worstRTT |-> 0, sumRTT |-> 0, sent |-> 0, received |-> 0, rtts |-> <<>>]

\* faulty variant: the two counters are incremented in each other's place
updateCountersSwapped(h, rtt) ==
    LET h1 == [h EXCEPT !.received = @ + 1] IN
    IF rtt > 0
    THEN [h1 EXCEPT !.sent     = @ + 1,
                    !.lastRTT  = rtt,
                    !.sumRTT   = @ + rtt,
                    !.rtts     = Append(@, rtt),
                    !.bestRTT  = IF @ = 0 \/ rtt < @ THEN rtt ELSE @,
                    !.worstRTT = IF rtt > @ THEN rtt ELSE @]
    ELSE h1

\* faulty variant: the best time is a plain minimum, never seeded
updateBestUnseeded(h, rtt) ==
    LET h1 == [h EXCEPT !.sent = @ + 1] IN
    IF rtt > 0
    THEN [h1 EXCEPT !.received = @ + 1,
                    !.lastRTT  = rtt,
                    !.sumRTT   = @ + rtt,
                    !.rtts     = Append(@, rtt),
                    !.bestRTT  = IF rtt < @ THEN rtt ELSE @,
                    !.worstRTT = IF rtt > @ THEN rtt ELSE @]
    ELSE h1

update(h, rtt) ==
    LET h1 == [h EXCEPT !.sent = @ + 1] IN
    IF rtt > 0
    THEN [h1 EXCEPT !.received = @ + 1,
                    !.lastRTT  = rtt,
                    !.sumRTT   = @ + rtt,
                    !.rtts     = Append(@, rtt),
                    !.bestRTT  = IF @ = 0 \/ rtt < @ THEN rtt ELSE @,
                    !.worstRTT = IF rtt > @ THEN rtt ELSE @]
    ELSE h1

\* faulty variant: the sum is divided by the number of probes sent
avgRTTOverSent(h) == IF h.received = 0 THEN 0 ELSE h.sumRTT \div h.sent

avgRTT(h) == IF h.received = 0 THEN 0 ELSE h.sumRTT \div h.received

\* faulty variant: the share of probes answered instead of the share lost
lossRateReceived(h) == IF h.sent = 0 THEN <<0, 1>> ELSE <<h.received, h.sent>>

\* a float64 quotient, kept exact as <<numerator, denominator>>
lossRate(h) == IF h.sent = 0 THEN <<0, 1>> ELSE <<h.sent - h.received, h.sent>>

\* the loop of stdDevRTT: the sum of diff * diff over rtts[k..]
RECURSIVE sumSquares(_, _, _)
sumSquares(rtts, avg, k) ==
    IF k > Len(rtts) THEN 0
    ELSE (rtts[k] - avg) * (rtts[k] - avg) + sumSquares(rtts, avg, k + 1)

\* time.Duration(math.Sqrt(num / den)): the square root of the quotient,
\* truncated to a whole duration; the search starts at k
RECURSIVE sqrtDuration(_, _, _)
sqrtDuration(num, den, k) ==
    IF (k + 1) * (k + 1) * den > num THEN k ELSE sqrtDuration(num, den, k + 1)

\* faulty variant: the variance is taken over n instead of n - 1
stdDevRTTPopulation(h) ==
    IF h.received < 2 THEN 0
    ELSE sqrtDuration(sumSquares(h.rtts, avgRTT(h), 1), Len(h.rtts), 0)

stdDevRTT(h) ==
    IF h.received < 2 THEN 0
    ELSE sqrtDuration(sumSquares(h.rtts, avgRTT(h), 1), Len(h.rtts) - 1, 0)

\* the map after getOrCreateHopStat(stats, addr); the entry returned is stats'[addr]
\* faulty variant: a fresh entry is stored whether or not one exists
getOrCreateHopStatFresh(stats, addr) ==
    [a \in DOMAIN stats \cup {addr} |->
        IF a = addr THEN NewHopStat(addr, Cardinality(DOMAIN stats) + 1)
                    ELSE stats[a]]

getOrCreateHopStat(stats, addr) ==
    IF addr \in DOMAIN stats
    THEN stats
    ELSE [a \in DOMAIN stats \cup {addr} |->
            IF a = addr THEN NewHopStat(addr, Cardinality(DOMAIN stats) + 1)
                        ELSE stats[a]]

\* the MTRHop Probe builds from one hopStat (StdDevRTT and Hostname keep
\* their zero values: ResolvePtr is not modelled)
MTRHop(st) ==
    [TTL |-> st.ttl, Address |-> st.address, Hostname |-> "",
     Loss |-> <<lossRate(st)[1] * 100, lossRate(st)[2]>>,
     LastRTT |-> st.lastRTT, AvgRTT |-> avgRTT(st), BestRTT |-> st.bestRTT,
     WorstRTT |-> st.worstRTT, StdDevRTT |-> 0,
     Sent |-> st.sent, Received |-> st.received]

\* every order in which the elements of S can be laid out in a slice
Orders(S) ==
    {s \in [1..Cardinality(S) -> S] : \A a, b \in 1..Cardinality(S) : s[a] = s[b] => a = b}

\* faulty variant: the hops are returned in the iteration order of the map
hopsUnsorted(hops) == {hops}

\* sort.Sort(hopsByTTL(hops)): the outcomes are the rearrangements of hops
\* that Less orders; the sort is not stable, equal TTLs may land either way
hopsByTTL(hops) ==
    {[k \in 1..Len(hops) |-> hops[p[k]]] : p \in
        {q \in Orders(1..Len(hops)) :
            \A a, b \in 1..Len(hops) : a < b => ~(hops[q[b]].TTL < hops[q[a]].TTL)}}

(* ------------------------------ state ---------------------------------- *)

VARIABLES
    target,     \* the Target[MTRExtention] of the MTRProber.Probe call
    mpc,        \* position inside MTRProber.Probe
    ttl,        \* loop variable of the sweep
    i,          \* loop variable of the additional probes
    maxHops,    \* local maxHops
    hopStats,   \* map[string]*hopStat
    stat,       \* key of the entry the local pointer stat refers to
    r,          \* the MTRResult under construction
    err,        \* the error MTRProber.Probe returned ("none" before it returns)
    counter,    \* IcmpID.counter of the ICMPProber in use
    ic,         \* the ICMPProber.Probe call in progress
    calls,      \* ICMPProber.Probe calls made directly by the caller
    hist,       \* what has been observed of the sweep so far
    hs,         \* a hopStat under direct update calls
    updates,    \* update calls applied to hs
    gets,       \* the goroutines calling Get on one IcmpID concurrently
    dial        \* the TCPProber.Probe or HTTPProber.Probe call in progress

mtrVars  == <<target, mpc, ttl, i, maxHops, hopStats, stat, r, err, hist>>
icmpVars == <<counter, ic, calls>>
statVars == <<hs, updates>>
vars     == <<target, mpc, ttl, i, maxHops, hopStats, stat, r, err, counter,
              ic, calls, hist, hs, updates, gets, dial>>

NoStats == [a \in {} |-> NewHopStat(a, 0)]

\* a nil error
Nil == "nil"

\* the zero value of the named result hop of sendICMP / icmpIPv4
ZeroHop == [Success |-> FALSE, Elapsed |-> 0, Addr |-> ""]

\* a nil Result, and the *ICMPResult Probe fills in
NilResult == [isNil |-> TRUE, Success |-> FALSE, Duration |-> 0, Address |-> ""]
ICMPResult(hop) ==
    [isNil |-> FALSE, Success |-> hop.Success, Duration |-> hop.Elapsed,
     Address |-> hop.Addr]

\* no packet read from the socket yet
NoEvent == [kind |-> "none"]

\* no ICMPProber.Probe call in progress
IdleCall ==
    [pc |-> "idle",
     target |-> [Address |-> "", Count |-> 0, Timeout |-> 0, TTL |-> 0,
                 Sequence |-> 0, EnableV6 |-> FALSE],
     ip |-> NilIP, isIPv6 |-> FALSE, ttl |-> 0, seq |-> 0, echoID |-> 0,
     ids |-> 0, sock |-> "none", opens |-> 0, ttlSet |-> FALSE,
     deadline |-> FALSE, deadlines |-> 0, left |-> 0, sent |-> 0,
     discarded |-> 0, last |-> NoEvent, cause |-> "none", hop |-> ZeroHop,
     r |-> NilResult, err |-> Nil]

\* no Get call made yet on an IcmpID whose counter is c: k counts the
\* increments since the IcmpID was made (limbs, never wrapping), g holds each
\* goroutine's position in Get, returned what the finished calls returned
NoGets(c) ==
    [k |-> c,
     g |-> [p \in 1..NumGoroutines |-> [pc |-> "idle", v |-> Wide(0), n |-> Wide(0), done |-> 0]],
     returned |-> {}]

NoHist ==
    [issued |-> 0, lastTTL |-> 0, extras |-> 0, answers |-> 0,
     answered |-> {}, targetAt |-> 0, requests |-> {}]

(* ------------------- ICMPProber.Probe, step by step -------------------- *)

\* ic.pc: idle -> parse -> listen -> setttl -> deadline -> write -> read ->
\* ret, or panic when the receive loop hits a run-time error.
\* ic.cause records what ended the call, ic.sock the raw socket of the call,
\* ic.opens the sockets it opened, ic.ids the identifiers it drew, ic.sent
\* the echo requests it wrote and ic.last the packet it read last.
\* ic.deadlines counts the SetDeadline calls, ic.left is the time left until
\* the read deadline of the open socket.

\* atomic.AddUint32(&c, 1): the new value, wrapping from 2^32 - 1 to 0
AddUint32(c) ==
    IF c[2] + 1 < Limb THEN <<c[1], c[2] + 1>>
    ELSE IF c[1] + 1 < Limb THEN <<c[1] + 1, 0>>
    ELSE <<0, 0>>

\* c % m for a limb pair c, computed limb by limb
WideMod(c, m) == ((c[1] % m) * (Limb % m) + c[2]) % m

\* IcmpID.Get on counter c: the identifier returned (below 65535, so the
\* conversion to uint16 keeps it)
Get(c) == WideMod(AddUint32(c), IDModulus)

\* the caller enters ICMPProber.Probe with target t
StartCall(t) == [IdleCall EXCEPT !.pc = "parse", !.target = t]

\* faulty variant: an error return that skips the deferred Close
ReturnErrSocketLeft(c, cause, e) ==
    [c EXCEPT !.pc = "ret", !.cause = cause, !.err = e, !.r = NilResult]

\* icmpIPv4 / icmpIPv6 returns (hop, e), the deferred Close runs; Probe turns
\* a non-nil e into (nil, e)
ReturnErr(c, cause, e) ==
    [c EXCEPT !.pc = "ret", !.cause = cause, !.err = e, !.r = NilResult,
              !.left = 0,
              !.sock = IF @ = "open" THEN "closed" ELSE @]

\* icmpIPv4 returns hop with a nil error; Probe copies it into the result
ReturnHop(c, hop) ==
    [c EXCEPT !.pc = "ret", !.cause = "reply", !.err = Nil, !.hop = hop,
              !.r = ICMPResult(hop),
              !.left = 0,
              !.sock = IF @ = "open" THEN "closed" ELSE @]

\* faulty variant: the identifier is drawn before the address is checked
ICMPProbeDrawsFirst ==
    /\ ic.pc = "parse"
    /\ counter' = AddUint32(counter)
    /\ LET ip == ParseIP(ic.target.Address)
           c  == [ic EXCEPT !.echoID = Get(counter), !.ids = @ + 1] IN
       IF ip = NilIP
       THEN ic' = ReturnErr(c, "config", "invalid IP address")
       ELSE ic' = [c EXCEPT
                        !.pc = "listen",
                        !.ip = ip,
                        !.isIPv6 = To4(ip) = NilIP /\ ic.target.EnableV6,
                        !.ttl = IF ic.target.TTL > 0 THEN ic.target.TTL ELSE DefaultTTL,
                        !.seq = IF ic.target.Sequence > 0 THEN ic.target.Sequence
                                                         ELSE DefaultSeq]
    /\ UNCHANGED <<mtrVars, calls, statVars, gets, dial>>

\* Probe up to the call of sendICMP: parse the address, choose the family,
\* default ttl and sequence, draw the echo identifier
ICMPProbe ==
    /\ ic.pc = "parse"
    /\ LET ip == ParseIP(ic.target.Address) IN
       IF ip = NilIP
       THEN /\ ic' = ReturnErr(ic, "config", "invalid IP address")
            /\ UNCHANGED counter
       ELSE /\ counter' = AddUint32(counter)
            /\ ic' = [ic EXCEPT
                        !.pc = "listen",
                        !.ip = ip,
                        !.isIPv6 = To4(ip) = NilIP /\ ic.target.EnableV6,
                        !.ttl = IF ic.target.TTL > 0 THEN ic.target.TTL ELSE DefaultTTL,
                        !.seq = IF ic.target.Sequence > 0 THEN ic.target.Sequence
                                                         ELSE DefaultSeq,
                        !.echoID = Get(counter),
                        !.ids = @ + 1]
    /\ UNCHANGED <<mtrVars, calls, statVars, gets, dial>>

\* icmp.ListenPacket of icmpIPv4 / icmpIPv6, and the deferred Close it arms
ListenPacket ==
    /\ ic.pc = "listen"
    /\ \E ok \in BOOLEAN :
         ic' = IF ok THEN [ic EXCEPT !.pc = "setttl", !.sock = "open",
                                     !.opens = @ + 1]
                     ELSE ReturnErr(ic, "listen", "listen: operation not permitted")
    /\ UNCHANGED <<mtrVars, counter, calls, statVars, gets, dial>>

\* faulty variant: a failure to set the ttl is ignored
SetTTLIgnored ==
    /\ ic.pc = "setttl"
    /\ \E ok \in BOOLEAN :
         ic' = [ic EXCEPT !.pc = "deadline", !.ttlSet = ok]
    /\ UNCHANGED <<mtrVars, counter, calls, statVars, gets, dial>>

\* p.SetTTL(ttl) / p.SetHopLimit(ttl)
SetTTL ==
    /\ ic.pc = "setttl"
    /\ \E ok \in BOOLEAN :
         ic' = IF ok THEN [ic EXCEPT !.pc = "deadline", !.ttlSet = TRUE]
                     ELSE ReturnErr(ic, "setttl", "setsockopt: invalid argument")
    /\ UNCHANGED <<mtrVars, counter, calls, statVars, gets, dial>>

\* c.SetDeadline(time.Now().Add(timeout))
SetDeadline ==
    /\ ic.pc = "deadline"
    /\ \E ok \in BOOLEAN :
         ic' = IF ok THEN [ic EXCEPT !.pc = "write", !.deadline = TRUE,
                                     !.deadlines = @ + 1,
                                     !.left = ic.target.Timeout]
                     ELSE ReturnErr(ic, "deadline", "use of closed network connection")
    /\ UNCHANGED <<mtrVars, counter, calls, statVars, gets, dial>>

\* marshal the echo request and write it; an "ip4:icmp" socket cannot send
\* to an IPv6 destination
WriteTo ==
    /\ ic.pc = "write"
    /\ \E ok \in IF ~ic.isIPv6 /\ To4(ic.ip) = NilIP THEN {FALSE} ELSE BOOLEAN :
         ic' = IF ok THEN [ic EXCEPT !.pc = "read", !.sent = @ + 1]
                     ELSE ReturnErr(ic, "write", "sendto: network is unreachable")
    /\ UNCHANGED <<mtrVars, counter, calls, statVars, gets, dial>>

(* what conn.ReadFrom can deliver to the receive loop *)

EventIDs  == 1..2
EventSeqs == 1..2
\* bytes.Index of the request's first four bytes in the embedded datagram
Indexes == {-1, 0, 20}

\* the payload of an echo request: the sequence number, then the marker
Payload(seq) == <<seq, "x">>

\* a Time Exceeded quotes the datagram it answers; embedded tells what the
\* quoted ICMP message parses as: "echo" (with id and seq), "short" (too few
\* bytes for an echo message), "other" (another ICMP type), and "cut" for a
\* quote that ends before the ICMP message starts
Events4 ==
    [kind : {"err"}, timeout : BOOLEAN]
    \cup [kind : {"empty", "garbage", "other"}]
    \cup [kind : {"timeExceeded"}, peer : IPs, index : Indexes,
          embedded : {"echo"}, id : EventIDs, seq : EventSeqs]
    \cup [kind : {"timeExceeded"}, peer : IPs, index : Indexes,
          embedded : {"short"}, id : {0}, seq : {0}]
    \cup [kind : {"echoReply"}, peer : IPs, id : EventIDs,
          data : {Payload(q) : q \in EventSeqs}]

Events6 ==
    [kind : {"err"}, timeout : BOOLEAN]
    \cup [kind : {"empty", "garbage", "other"}]
    \cup [kind : {"timeExceeded"}, peer : IPs6,
          embedded : {"echo"}, id : EventIDs, seq : EventSeqs]
    \cup [kind : {"timeExceeded"}, peer : IPs6,
          embedded : {"short", "other", "cut"}, id : {0}, seq : {0}]
    \cup [kind : {"echoReply"}, peer : IPs6, id : EventIDs,
          data : {Payload(q) : q \in EventSeqs}]

\* faulty variant: an Echo Reply is accepted on its payload alone
listenForSpecific4AnyID(ev, neededBody, echoID, needSeq) ==
    CASE ev.kind = "err" -> "error"
      [] ev.kind \in {"empty", "garbage", "other"} -> "continue"
      [] ev.kind = "timeExceeded" ->
            IF ev.index > 0
            THEN IF ev.embedded = "short" THEN "panic"
                 ELSE IF ev.id = echoID /\ ev.seq = needSeq
                      THEN "match" ELSE "continue"
            ELSE "continue"
      [] ev.kind = "echoReply" ->
            IF ev.data # neededBody THEN "continue" ELSE "match"

\* one iteration of the loop of listenForSpecific4 on the read ev: "error"
\* (return neterr), "match" (return peer), "continue", or "panic": the
\* second ParseMessage returned nil and x.Body dereferences it
listenForSpecific4(ev, neededBody, echoID, needSeq) ==
    CASE ev.kind = "err" -> "error"
      [] ev.kind \in {"empty", "garbage", "other"} -> "continue"
      [] ev.kind = "timeExceeded" ->
            IF ev.index > 0
            THEN IF ev.embedded = "short" THEN "panic"
                 ELSE IF ev.id = echoID /\ ev.seq = needSeq
                      THEN "match" ELSE "continue"
            ELSE "continue"
      [] ev.kind = "echoReply" ->
            IF ev.data # neededBody \/ ev.id # echoID
            THEN "continue" ELSE "match"

\* faulty variant: a Time Exceeded is accepted on the embedded id alone
listenForSpecific6AnySeq(ev, neededBody, echoID, needSeq) ==
    CASE ev.kind = "err" -> "error"
      [] ev.kind \in {"empty", "garbage", "other"} -> "continue"
      [] ev.kind = "timeExceeded" ->
            IF ev.embedded \in {"cut", "short"} THEN "panic"
            ELSE IF ev.embedded = "other" THEN "continue"
            ELSE IF ev.id = echoID THEN "match" ELSE "continue"
      [] ev.kind = "echoReply" ->
            IF ev.data # neededBody \/ ev.id # echoID
            THEN "continue" ELSE "match"

\* one iteration of the loop of listenForSpecific6: body[40:] panics on a
\* quote shorter than 40 bytes, x.Body on a nil x
listenForSpecific6(ev, neededBody, echoID, needSeq) ==
    CASE ev.kind = "err" -> "error"
      [] ev.kind \in {"empty", "garbage", "other"} -> "continue"
      [] ev.kind = "timeExceeded" ->
            IF ev.embedded \in {"cut", "short"} THEN "panic"
            ELSE IF ev.embedded = "other" THEN "continue"
            ELSE IF ev.id = echoID /\ ev.seq = needSeq
                 THEN "match" ELSE "continue"
      [] ev.kind = "echoReply" ->
            IF ev.data # neededBody \/ ev.id # echoID
            THEN "continue" ELSE "match"

\* the packet last read is kept for the calls a caller makes directly
Seen(ev) == IF mpc = "idle" THEN ev ELSE NoEvent

\* a run-time panic unwinds icmpIPv4 / icmpIPv6: the deferred Close runs,
\* nothing is returned
Panic(c) ==
    [c EXCEPT !.pc = "panic", !.cause = "panic", !.left = 0,
              !.sock = IF @ = "open" THEN "closed" ELSE @]

\* one conn.ReadFrom and its handling. A packet is read only before the
\* deadline and takes some of the time left; the timeout error is the
\* deadline passing. On a match icmpIPv4 / icmpIPv6 takes the elapsed time,
\* which covers at least the time waited, and returns
ReadFrom ==
    /\ ic.pc = "read"
    /\ \E ev \in IF ic.isIPv6 THEN Events6 ELSE Events4 :
       \E d \in IF ev.kind = "err" THEN {0} ELSE 1..ic.left :
         LET out == IF ic.isIPv6
                    THEN listenForSpecific6(ev, Payload(ic.seq), ic.echoID, ic.seq)
                    ELSE listenForSpecific4(ev, Payload(ic.seq), ic.echoID, ic.seq)
             c   == [ic EXCEPT !.last = Seen(ev), !.left = @ - d]
             waited == ic.target.Timeout - c.left IN
         \/ /\ out = "error"
            /\ ic' = ReturnErr(c, IF ev.timeout THEN "timeout" ELSE "io",
                               IF ev.timeout THEN "read: i/o timeout"
                                             ELSE "read: connection refused")
            /\ UNCHANGED hist
         \/ /\ out = "continue"
            /\ ic.discarded < MaxDiscard
            /\ ic' = [c EXCEPT !.discarded = @ + 1]
            /\ UNCHANGED hist
         \/ /\ out = "panic"
            /\ ic' = Panic(c)
            /\ UNCHANGED hist
         \/ /\ out = "match"
            /\ hist.answers < MaxAnswers
            /\ \E elapsed \in {e \in 1..MaxElapsed : e >= waited} :
                 ic' = ReturnHop(c, [Success |-> TRUE, Elapsed |-> elapsed,
                                     Addr |-> IPString(ev.peer)])
            /\ hist' = [hist EXCEPT !.answers = @ + 1]
    /\ UNCHANGED <<target, mpc, ttl, i, maxHops, hopStats, stat, r, err,
                   counter, calls, statVars, gets, dial>>

(* ----------------------------- MTRProber ------------------------------- *)

\* mpc: idle -> loop -> hop -> (loop | extra -> xhop -> extra) -> compile -> done

\* targets that configure MaxHops, and targets that leave it to the default
MaxHopsCfgs == 1..MaxCfgHops
Counts      == 0..MaxCount
MTRTargets  ==
    [Address : Addresses, Count : Counts, MaxHops : MaxHopsCfgs, Sequence : {0},
     EnableV6 : {FALSE}, Timeout : {MaxTimeout}]
    \cup {[Address |-> a[1], Count |-> a[2], MaxHops |-> a[3], Sequence |-> 0,
           EnableV6 |-> a[4], Timeout |-> MaxTimeout] :
          a \in {<<"10.0.0.9", 0, 0, FALSE>>, <<"10.0.0.9", 2, 0, FALSE>>,
                 <<"10.0.0.9", 1, -1, FALSE>>, <<"not-an-ip", 0, 0, FALSE>>,
                 <<"10.0.0.9", -1, 1, FALSE>>,
                 <<"2001:db8::9", 2, 2, TRUE>>}}

\* faulty variant: the configured value is assigned to a shadowed variable
effectiveMaxHopsShadowed(t) == DefaultMaxHops

\* the local maxHops: the default unless the target configures one
effectiveMaxHops(t) == IF t.MaxHops > 0 THEN t.MaxHops ELSE DefaultMaxHops

\* the Target[ICMPExtention] probeHop builds
icmpTarget(t, hopTTL) ==
    [Address |-> t.Address, Timeout |-> t.Timeout, Count |-> 1,
     TTL |-> hopTTL, Sequence |-> t.Sequence, EnableV6 |-> t.EnableV6]

\* Probe is entered: the result, maxHops and the statistics map are set up
MTRProbe ==
    /\ mpc = "idle"
    /\ \E t \in MTRTargets :
         /\ target' = t
         /\ maxHops' = effectiveMaxHops(t)
    /\ r' = [Success |-> FALSE, Duration |-> 0, Hops |-> <<>>]
    /\ hopStats' = NoStats
    /\ ttl' = 1
    /\ mpc' = "loop"
    /\ UNCHANGED <<i, stat, err, hist, icmpVars, statVars, gets, dial>>

\* probeHop up to the call of Probe on a new ICMPProber
probeHop(t, hopTTL, extra) ==
    /\ ic' = StartCall(icmpTarget(t, hopTTL))
    /\ counter' = Wide(0)
    /\ hist' = [hist EXCEPT !.issued = @ + 1, !.lastTTL = hopTTL,
                            !.extras = IF extra THEN @ + 1 ELSE @]

\* loop condition true: probe the current ttl
SweepCall ==
    /\ mpc = "loop"
    /\ ttl <= maxHops
    /\ probeHop(target, ttl, FALSE)
    /\ mpc' = "hop"
    /\ UNCHANGED <<target, ttl, i, maxHops, hopStats, stat, r, err, calls, statVars, gets, dial>>

\* loop condition false: the sweep is over
SweepExit ==
    /\ mpc = "loop"
    /\ ttl > maxHops
    /\ mpc' = "compile"
    /\ UNCHANGED <<target, ttl, i, maxHops, hopStats, stat, r, err, hist,
                   icmpVars, statVars, gets, dial>>

\* the *MTRHop probeHop returns for a result of Probe
hopOf(res, hopTTL) == [TTL |-> hopTTL, Address |-> res.Address, LastRTT |-> res.Duration]

\* what the sweep has seen once a probe came back without error
Observe(h, addr, hopTTL, tgt) ==
    [h EXCEPT !.answered = @ \cup {addr},
              !.targetAt = IF addr = tgt /\ @ = 0 THEN hopTTL ELSE @]

\* the identifier and sequence number of the echo request the returning call
\* sent join those of the sweep
Requested(h, c) ==
    [h EXCEPT !.requests = IF c.sent > 0 THEN @ \cup {<<c.echoID, c.seq>>} ELSE @]

\* faulty variant: a failed probe ends the sweep
SweepBreak ==
    /\ mpc' = "compile"
    /\ hist' = Requested(hist, ic)
    /\ UNCHANGED <<ttl, hopStats, stat, i>>

\* `continue` after a failed probe: on to the next ttl, nothing recorded
SweepContinue ==
    /\ ttl' = ttl + 1
    /\ mpc' = "loop"
    /\ hist' = Requested(hist, ic)
    /\ UNCHANGED <<hopStats, stat, i>>

\* faulty variant: the target test compares addresses, not their texts
reachedTargetByIP(hop, t) == ParseIP(hop.Address) = ParseIP(t.Address)

\* the test for having reached the target
reachedTarget(hop, t) == hop.Address = t.Address

\* probeHop returned inside the sweep: skip on error, else update the
\* statistics of the address and test for the target
SweepReturn ==
    /\ mpc = "hop"
    /\ ic.pc = "ret"
    /\ IF ic.err # Nil
       THEN SweepContinue
       ELSE LET hop   == hopOf(ic.r, ttl)
                stats == getOrCreateHopStat(hopStats, hop.Address)
            IN /\ stat' = hop.Address
               /\ hopStats' = [stats EXCEPT ![hop.Address] = update(@, hop.LastRTT)]
               /\ hist' = Requested(Observe(hist, hop.Address, ttl, target.Address), ic)
               /\ IF reachedTarget(hop, target)
                  THEN /\ i' = 0
                       /\ mpc' = "extra"
                       /\ UNCHANGED ttl
                  ELSE /\ ttl' = ttl + 1
                       /\ mpc' = "loop"
                       /\ UNCHANGED i
    /\ ic' = IdleCall
    /\ UNCHANGED <<target, maxHops, r, err, counter, calls, statVars, gets, dial>>

\* faulty variant: the inner loop runs GetCount() times
ExtraCallOneMore ==
    /\ mpc = "extra"
    /\ i <= GetCount(target) - 1
    /\ probeHop(target, ttl, TRUE)
    /\ mpc' = "xhop"
    /\ UNCHANGED <<target, ttl, i, maxHops, hopStats, stat, r, err, calls, statVars, gets, dial>>

\* inner loop condition true: one more probe at the target's ttl
ExtraCall ==
    /\ mpc = "extra"
    /\ i < GetCount(target) - 1
    /\ probeHop(target, ttl, TRUE)
    /\ mpc' = "xhop"
    /\ UNCHANGED <<target, ttl, i, maxHops, hopStats, stat, r, err, calls, statVars, gets, dial>>

\* inner loop condition false: break out of the sweep
ExtraExit ==
    /\ mpc = "extra"
    /\ ~(i < GetCount(target) - 1)
    /\ mpc' = "compile"
    /\ UNCHANGED <<target, ttl, i, maxHops, hopStats, stat, r, err, hist,
                   icmpVars, statVars, gets, dial>>

\* faulty variant: a failed additional probe is counted as sent and lost
ExtraReturnCountsLost ==
    /\ mpc = "xhop"
    /\ ic.pc = "ret"
    /\ IF ic.err = Nil
       THEN /\ hopStats' = [hopStats EXCEPT ![stat] = update(@, hopOf(ic.r, ttl).LastRTT)]
            /\ hist' = Requested(Observe(hist, ic.r.Address, ttl, target.Address), ic)
       ELSE /\ hist' = Requested(hist, ic)
            /\ hopStats' = [hopStats EXCEPT ![stat] = update(@, 0)]
    /\ i' = i + 1
    /\ mpc' = "extra"
    /\ ic' = IdleCall
    /\ UNCHANGED <<target, ttl, maxHops, stat, r, err, counter, calls, statVars, gets, dial>>

\* probeHop returned inside the inner loop: update stat unless it failed
ExtraReturn ==
    /\ mpc = "xhop"
    /\ ic.pc = "ret"
    /\ IF ic.err = Nil
       THEN /\ hopStats' = [hopStats EXCEPT ![stat] = update(@, hopOf(ic.r, ttl).LastRTT)]
            /\ hist' = Requested(Observe(hist, ic.r.Address, ttl, target.Address), ic)
       ELSE /\ hist' = Requested(hist, ic)
            /\ UNCHANGED hopStats
    /\ i' = i + 1
    /\ mpc' = "extra"
    /\ ic' = IdleCall
    /\ UNCHANGED <<target, ttl, maxHops, stat, r, err, counter, calls, statVars, gets, dial>>

\* faulty variant: a sweep that found no hop is reported as failed
CompileNeedsHops ==
    /\ mpc = "compile"
    /\ \E order \in Orders(DOMAIN hopStats) :
         \E hops \in hopsByTTL([k \in 1..Len(order) |-> MTRHop(hopStats[order[k]])]) :
            r' = [r EXCEPT !.Success = Len(hops) > 0, !.Hops = hops]
    /\ err' = IF DOMAIN hopStats = {} THEN "no hops" ELSE Nil
    /\ mpc' = "done"
    /\ UNCHANGED <<target, ttl, i, maxHops, hopStats, stat, hist, icmpVars, statVars, gets, dial>>

\* compile the hops in the iteration order of the map, sort them, return
Compile ==
    /\ mpc = "compile"
    /\ \E order \in Orders(DOMAIN hopStats) :
         \E hops \in hopsByTTL([k \in 1..Len(order) |-> MTRHop(hopStats[order[k]])]) :
            r' = [r EXCEPT !.Success = TRUE, !.Hops = hops]
    /\ err' = Nil
    /\ mpc' = "done"
    /\ UNCHANGED <<target, ttl, i, maxHops, hopStats, stat, hist, icmpVars, statVars, gets, dial>>

\* the zero BaseResult of a TCPResult or HTTPResult (Err "nil" is the nil
\* error), and no TCP or HTTP Probe call in progress
BaseResult(t) == [Target |-> t, Success |-> FALSE, Err |-> "nil",
                  Duration |-> 0, StatusCode |-> 0, ResponseSize |-> 0]
NoDial == [pc |-> "idle", kind |-> "none", method |-> "",
           r |-> BaseResult([Address |-> "", Method |-> "", Timeout |-> 0]),
           isNil |-> TRUE, err |-> "none", status |-> 0, cause |-> "none"]

Init ==
    /\ target = [Address |-> "", Count |-> 0, MaxHops |-> 0, Sequence |-> 0,
                 EnableV6 |-> FALSE, Timeout |-> 0]
    /\ mpc = "idle"
    /\ ttl = 0
    /\ i = 0
    /\ maxHops = 0
    /\ hopStats = NoStats
    /\ stat = ""
    /\ r = [Success |-> FALSE, Duration |-> 0, Hops |-> <<>>]
    /\ err = "none"
    /\ counter = Wide(0)
    /\ ic = IdleCall
    /\ calls = 0
    /\ hist = NoHist
    /\ hs = NewHopStat("", 0)
    /\ updates = 0
    /\ gets = NoGets(Wide(0))
    /\ dial = NoDial

Next ==
    \/ MTRProbe
    \/ SweepCall
    \/ SweepExit
    \/ SweepReturn
    \/ ExtraCall
    \/ ExtraExit
    \/ ExtraReturn
    \/ Compile
    \/ ICMPProbe
    \/ ListenPacket
    \/ SetTTL
    \/ SetDeadline
    \/ WriteTo
    \/ ReadFrom

Spec == Init /\ [][Next]_vars

(* ------------------- direct use of one ICMPProber ---------------------- *)

ICMPTargets ==
    [Address : Addresses \cup {"10.0.0.1", "2001:db8::9"}, Count : {0, 3},
     Timeout : 0..MaxTimeout, TTL : {0, 1}, Sequence : {0, 2},
     EnableV6 : BOOLEAN]

\* the caller invokes Probe on the prober it holds
DirectCall ==
    /\ mpc = "idle"
    /\ ic.pc \in {"idle", "ret"}
    /\ calls < MaxCalls
    /\ \E t \in ICMPTargets : ic' = StartCall(t)
    /\ calls' = calls + 1
    /\ UNCHANGED <<mtrVars, counter, statVars, gets, dial>>

NextICMP ==
    \/ DirectCall
    \/ ICMPProbe
    \/ ListenPacket
    \/ SetTTL
    \/ SetDeadline
    \/ WriteTo
    \/ ReadFrom

SpecICMP == Init /\ [][NextICMP]_vars

(* ------------------- one hopStat under update calls -------------------- *)

\* the rtt values passed to update: absent (<= 0) or a sample
RTTs == {-1, 0} \cup {10 * k : k \in 1..MaxRTT}

Update ==
    /\ updates < MaxUpdates
    /\ \E rtt \in RTTs : hs' = update(hs, rtt)
    /\ updates' = updates + 1
    /\ UNCHANGED <<mtrVars, icmpVars, gets, dial>>

NextStat == Update

SpecStat == Init /\ [][NextStat]_vars

(* ------------ concurrent Get calls on one IcmpID ---------------------- *)

Goroutines == 1..NumGoroutines

\* the counter values an IcmpID in use for some time can hold when the
\* goroutines start: 0, 65533 and 2^32 - 3
StartCounters == {<<0, 0>>, <<0, 65533>>, <<65535, 65533>>}

\* the next value of the count of increments, which does not wrap
NextCount(k) == IF k[2] + 1 < Limb THEN <<k[1], k[2] + 1>> ELSE <<k[1] + 1, 0>>

\* goroutine p executes atomic.AddUint32(&c.counter, 1) and holds its result
GetAdd(p) ==
    /\ gets.g[p].pc = "idle"
    /\ gets.g[p].done < MaxGets
    /\ counter' = AddUint32(counter)
    /\ gets' = [gets EXCEPT !.k = NextCount(@),
                            !.g[p].pc = "added",
                            !.g[p].v = AddUint32(counter),
                            !.g[p].n = NextCount(gets.k)]
    /\ UNCHANGED <<mtrVars, ic, calls, statVars, dial>>

\* goroutine p reduces the value it holds, converts it and returns
GetReturn(p) ==
    /\ gets.g[p].pc = "added"
    /\ gets' = [gets EXCEPT
                 !.g[p].pc = "idle",
                 !.g[p].done = @ + 1,
                 !.returned = @ \cup {[by |-> p, call |-> gets.g[p].done + 1,
                                       n |-> gets.g[p].n,
                                       id |-> WideMod(gets.g[p].v, IDModulus)]}]
    /\ UNCHANGED <<mtrVars, icmpVars, statVars, dial>>

InitID ==
    /\ target = [Address |-> "", Count |-> 0, MaxHops |-> 0, Sequence |-> 0,
                 EnableV6 |-> FALSE, Timeout |-> 0]
    /\ mpc = "idle"
    /\ ttl = 0
    /\ i = 0
    /\ maxHops = 0
    /\ hopStats = NoStats
    /\ stat = ""
    /\ r = [Success |-> FALSE, Duration |-> 0, Hops |-> <<>>]
    /\ err = "none"
    /\ ic = IdleCall
    /\ calls = 0
    /\ hist = NoHist
    /\ hs = NewHopStat("", 0)
    /\ updates = 0
    /\ \E c \in StartCounters : counter = c /\ gets = NoGets(c)
    /\ dial = NoDial

NextID == \E p \in Goroutines : GetAdd(p) \/ GetReturn(p)

SpecID == InitID /\ [][NextID]_vars

(* ------------------- TCPProber.Probe, HTTPProber.Probe ----------------- *)

TCPTargets  == [Address : {"10.0.0.9:80", "10.0.0.9:81", "10.0.0.9"},
                Method : {""}, Timeout : 1..MaxTimeout]
HTTPTargets == [Address : {"http://10.0.0.9/", "https://10.0.0.9/", "http://[::1"},
                Method : {"", "GET", "HEAD", "BAD METHOD"},
                Timeout : 1..MaxTimeout]
StatusCodes == {200, 301, 500}

\* net/http's validMethod, and whether url.Parse accepts the address
validMethod(m) == m \in {"GET", "HEAD"}
ParseURL(a)    == a \in {"http://10.0.0.9/", "https://10.0.0.9/"}
\* whether net.DialTimeout can split the address into host and port
HasPort(a)     == a \in {"10.0.0.9:80", "10.0.0.9:81"}

\* return r, e; cause names the return statement taken
DialReturn(d, res, e, cause) ==
    [d EXCEPT !.pc = "ret", !.r = res, !.isNil = FALSE, !.err = e,
              !.cause = cause]

\* TCPProber.Probe: r := &TCPResult{...}; startAt := time.Now()
TCPProbe ==
    /\ dial.pc \in {"idle", "ret"}
    /\ \E t \in TCPTargets :
          dial' = [NoDial EXCEPT !.pc = "dial", !.kind = "TCP",
                                 !.r = BaseResult(t)]
    /\ UNCHANGED <<mtrVars, icmpVars, statVars, gets>>

\* conn, err := net.DialTimeout(...): on an error r.Err = err and return r, nil;
\* else r.Duration = time.Since(startAt), r.Success = true, return r, nil
DialTimeout ==
    /\ dial.pc = "dial"
    /\ \/ \E e \in IF HasPort(dial.r.Target.Address)
                   THEN {"connection refused", "i/o timeout"}
                   ELSE {"missing port in address"} :
             dial' = DialReturn(dial, [dial.r EXCEPT !.Err = e], "nil", "dial")
       \/ /\ HasPort(dial.r.Target.Address)
          /\ \E elapsed \in 1..MaxElapsed :
                dial' = DialReturn(dial, [dial.r EXCEPT !.Duration = elapsed,
                                                        !.Success = TRUE],
                                  "nil", "done")
    /\ UNCHANGED <<mtrVars, icmpVars, statVars, gets>>

\* HTTPProber.Probe: r := &HTTPResult{...}; method defaults to GET
HTTPProbe ==
    /\ dial.pc \in {"idle", "ret"}
    /\ \E t \in HTTPTargets :
          dial' = [NoDial EXCEPT !.pc = "newRequest", !.kind = "HTTP",
                                 !.method = IF t.Method = "" THEN "GET"
                                            ELSE t.Method,
                                 !.r = BaseResult(t)]
    /\ UNCHANGED <<mtrVars, icmpVars, statVars, gets>>

\* req, err := http.NewRequest(method, target.Address, nil)
NewRequest ==
    /\ dial.pc = "newRequest"
    /\ dial' = IF ~validMethod(dial.method)
               THEN DialReturn(dial, [dial.r EXCEPT !.Err = "invalid method"],
                               "nil", "request")
               ELSE IF ~ParseURL(dial.r.Target.Address)
               THEN DialReturn(dial, [dial.r EXCEPT !.Err = "parse error"],
                               "nil", "request")
               ELSE [dial EXCEPT !.pc = "do"]
    /\ UNCHANGED <<mtrVars, icmpVars, statVars, gets>>

\* resp, err := httpClient.Do(traceRequest): redirects are not followed, and
\* any status code is a response
Do ==
    /\ dial.pc = "do"
    /\ \/ \E e \in {"connection refused", "Client.Timeout exceeded"} :
             dial' = DialReturn(dial, [dial.r EXCEPT !.Err = e], "nil", "do")
       \/ \E code \in StatusCodes :
             dial' = [dial EXCEPT !.pc = "readAll", !.status = code]
    /\ UNCHANGED <<mtrVars, icmpVars, statVars, gets>>

\* responseBody, err := ioutil.ReadAll(resp.Body): on an error return r, err;
\* else the sizes, status and times are stored and the call returns r, nil
ReadAll ==
    /\ dial.pc = "readAll"
    /\ \/ dial' = DialReturn(dial, dial.r, "unexpected EOF", "body")
       \/ \E n \in 0..MaxBody, elapsed \in 1..MaxElapsed :
             dial' = DialReturn(dial, [dial.r EXCEPT !.ResponseSize = n,
                                                     !.StatusCode = dial.status,
                                                     !.Duration = elapsed],
                                "nil", "done")
    /\ UNCHANGED <<mtrVars, icmpVars, statVars, gets>>

NextDial == TCPProbe \/ DialTimeout \/ HTTPProbe \/ NewRequest \/ Do \/ ReadAll

SpecDial == Init /\ [][NextDial]_vars

(* ------------------------------ claims --------------------------------- *)

\* a step that enters ICMPProber.Probe, i.e. issues a probe
ProbeIssued == ic.pc # "parse" /\ ic'.pc = "parse"

\* the effective MaxHops of the target of the sweep
EffectiveMaxHops == IF target.MaxHops > 0 THEN target.MaxHops ELSE 30

\* the number of additional probes, GetCount() - 1, none for a Count below 2
AdditionalProbes == IF target.Count <= 1 THEN 0 ELSE target.Count - 1

\* a sweep step at the loop head with a ttl still to probe
AtLoopHead == mpc = "loop" /\ ttl <= EffectiveMaxHops

\* C1: within one MTR Probe call the probes go out at ttl 1, 2, 3, ... without
\* gaps and never above the effective MaxHops (the configured value when > 0,
\* else 30); the ttl never decreases and is repeated only for the additional
\* probes after the target answered.
C1_SweepTTLOrder ==
    [][ProbeIssued =>
         LET t == ic'.target.TTL IN
         /\ 1 <= t /\ t <= EffectiveMaxHops
         /\ hist.lastTTL <= t /\ t <= hist.lastTTL + 1
         /\ (t = hist.lastTTL => hist.targetAt = t)]_vars

\* the default sweep reached ttl 30, the target answered there and an
\* additional probe is in flight at the same ttl
C1_Witness ==
    /\ target.MaxHops = 0
    /\ mpc = "xhop"
    /\ hist.lastTTL = 30
    /\ hist.targetAt = 30
    /\ hist.issued = 31

\* the probe of the sweep at the current ttl came back with an error
ProbeFailedInSweep == mpc = "hop" /\ ic.pc = "ret" /\ ic.err # Nil

\* C2: when the probe at ttl t returns an error the sweep swallows it: no
\* HopStat is created or updated, the MTR call does not fail, and the sweep
\* goes on to ttl t+1, which it probes if t < MaxHops.
C2_HopErrorSwallowed ==
    [][/\ (ProbeFailedInSweep /\ mpc' # mpc) =>
             /\ hopStats' = hopStats
             /\ err' = "none"
             /\ ttl' = ttl + 1
             /\ mpc' = "loop"
       /\ (AtLoopHead /\ mpc' # mpc) => (ProbeIssued /\ ic'.target.TTL = ttl)
       /\ (mpc' = "done") => (err' = Nil)]_vars

\* the probe at ttl 1 failed and ttl 2 is being probed
C2_Witness ==
    /\ mpc = "hop"
    /\ ic.target.TTL = 2
    /\ hist.issued = 2
    /\ hist.answers = 0
    /\ hopStats = NoStats

\* the probe of the sweep came back with the answer of the target / of another host
TargetAnswered == mpc = "hop" /\ ic.pc = "ret" /\ ic.err = Nil
                  /\ ic.r.Address = target.Address
OtherAnswered  == mpc = "hop" /\ ic.pc = "ret" /\ ic.err = Nil
                  /\ ic.r.Address # target.Address

\* C3: the sweep stops exactly when the answering address equals the target
\* address string: exactly GetCount()-1 additional probes follow at that ttl
\* and no probe at a higher ttl is ever issued; when the answering address
\* differs the sweep continues with ttl+1 while ttl < MaxHops.
C3_StopsAtTarget ==
    [][/\ (TargetAnswered /\ mpc' # mpc) => (ttl' = ttl /\ mpc' # "loop")
       /\ (ProbeIssued /\ hist.targetAt > 0) =>
             /\ ic'.target.TTL = hist.targetAt
             /\ hist.extras < AdditionalProbes
       /\ (OtherAnswered /\ mpc' # mpc) => (ttl' = ttl + 1 /\ mpc' = "loop")
       /\ (AtLoopHead /\ mpc' # mpc) => (ProbeIssued /\ ic'.target.TTL = ttl)
       /\ (mpc' = "done") =>
             /\ hist'.targetAt > 0 => /\ hist'.extras = AdditionalProbes
                                      /\ hist'.lastTTL = hist'.targetAt
             /\ hist'.targetAt = 0 => hist'.lastTTL = EffectiveMaxHops]_vars

\* the target answered at ttl 2 of 3, two additional probes followed, and the
\* call returned without probing ttl 3
C3_Witness ==
    /\ mpc = "done"
    /\ target.MaxHops = 3
    /\ target.Count = 3
    /\ hist.targetAt = 2
    /\ hist.extras = 2
    /\ hist.lastTTL = 2

\* C4: every MTR Probe call that reaches assembly returns a nil error and a
\* result with Success = true, however many probes failed, whether or not the
\* target was reached, and even with no hop at all.
C4_AlwaysSuccess == (mpc = "done") => (err = Nil /\ r.Success = TRUE)

\* every probe of a full default sweep failed: no hop, target never reached
C4_Witness ==
    /\ mpc = "done"
    /\ r.Hops = <<>>
    /\ hist.issued = 30
    /\ hist.targetAt = 0
    /\ ParseIP(target.Address) # NilIP

\* C5: an MTR Probe call whose target Address is not a parseable IP literal
\* fails up front: it returns an error, opens no socket and sweeps no ttl.
\* (Refuted: the sweep runs and swallows the error of every probe.)
C5_BadAddressFailsUpFront ==
    (mpc = "done" /\ ParseIP(target.Address) = NilIP) =>
        (err # Nil /\ hist.issued = 0 /\ ic.sock = "none")

\* C6: an ICMP Probe call whose target Address is not a parseable IP literal
\* returns a nil result and a non-nil error before any socket is opened, any
\* echo identifier is drawn or any packet is sent.
C6_InvalidAddressRejected ==
    (ic.pc # "idle" /\ ParseIP(ic.target.Address) = NilIP) =>
        /\ ic.pc \in {"parse", "ret"}
        /\ ic.sock = "none"
        /\ ic.ids = 0
        /\ ic.sent = 0
        /\ (ic.pc = "ret") => (ic.r.isNil /\ ic.err # Nil)

\* a second call on the prober was rejected for its address after the first
\* call had drawn identifier 1
C6_Witness ==
    /\ ic.pc = "ret"
    /\ ic.target.Address = "not-an-ip"
    /\ ic.cause = "config"
    /\ calls = 2
    /\ counter = Wide(1)

\* C7: when the read deadline of an ICMP probe elapses with no matching reply
\* the probe returns no error but a result with success = false.
\* (Refuted: the timeout is returned as an error, with a nil result.)
C7_TimeoutIsNotAnError ==
    (ic.pc = "ret" /\ ic.cause = "timeout") =>
        (ic.err = Nil /\ ~ic.r.isNil /\ ic.r.Success = FALSE)

\* C8: after any MTR sweep the hop list is strictly ordered by ascending TTL
\* and holds no two hops with the same TTL and no two with the same address.
C8_HopsStrictlyOrdered ==
    (mpc = "done") =>
        \A a, b \in 1..Len(r.Hops) :
            a < b => /\ r.Hops[a].TTL < r.Hops[b].TTL
                     /\ r.Hops[a].Address # r.Hops[b].Address

\* two hosts answered, the first of them at two ttls of the sweep
C8_Witness ==
    /\ mpc = "done"
    /\ Len(r.Hops) = 2
    /\ r.Hops[1].Sent = 2
    /\ hist.extras = 0

\* C9: after an MTR sweep the hop list has exactly one entry for each distinct
\* address that answered at least one probe and none for an address that never
\* answered; it is non-empty whenever a probe was answered.
\* (Refuted: the answer to an additional probe is credited to the target's
\* entry whoever sent it.)
C9_OneHopPerAnsweringAddress ==
    (mpc = "done") =>
        /\ {r.Hops[k].Address : k \in 1..Len(r.Hops)} = hist.answered
        /\ Len(r.Hops) = Cardinality(hist.answered)
        /\ (hist.answers > 0) => (Len(r.Hops) > 0)

\* C10: for every HopStat, after any sequence of update calls (with a valid
\* or an absent RTT), received <= sent.
C10_ReceivedAtMostSent == hs.received <= hs.sent

\* updates with and without an RTT were applied
C10_Witness ==
    /\ updates = MaxUpdates
    /\ hs.received > 0
    /\ hs.received < hs.sent

\* the sum of the squared deviations of the samples of h from avgRTT(h)
RECURSIVE Deviations(_, _)
Deviations(h, k) ==
    IF k = 0 THEN 0
    ELSE Deviations(h, k - 1)
         + (h.rtts[k] - avgRTT(h)) * (h.rtts[k] - avgRTT(h))

\* C11: for every HopStat, after any sequence of update calls: if received > 0
\* then bestRTT <= every recorded sample <= worstRTT and bestRTT <= avgRTT()
\* <= worstRTT; if received = 0 then bestRTT, worstRTT, lastRTT and avgRTT()
\* are all zero.
C11_RTTOrder ==
    /\ hs.received > 0 =>
         /\ \A k \in 1..Len(hs.rtts) :
               hs.bestRTT <= hs.rtts[k] /\ hs.rtts[k] <= hs.worstRTT
         /\ hs.bestRTT <= avgRTT(hs) /\ avgRTT(hs) <= hs.worstRTT
    /\ hs.received = 0 =>
         /\ hs.bestRTT = 0 /\ hs.worstRTT = 0 /\ hs.lastRTT = 0
         /\ avgRTT(hs) = 0

\* samples and absent answers were recorded, the average lying strictly
\* between the best and the worst sample
C11_Witness ==
    /\ hs.received >= 2 /\ hs.received < hs.sent
    /\ hs.bestRTT < avgRTT(hs) /\ avgRTT(hs) < hs.worstRTT

\* C12: for every HopStat state lossRate() is (sent - received) / sent when
\* sent > 0 and 0 when sent = 0; the Loss percentage of the MTRHop built from
\* it, lossRate() * 100, lies between 0 and 100.
C12_LossRate ==
    LET l == lossRate(hs)
        p == MTRHop(hs).Loss IN
    /\ l[2] > 0 /\ p[2] > 0
    /\ hs.sent > 0 => l[1] * hs.sent = (hs.sent - hs.received) * l[2]
    /\ hs.sent = 0 => l[1] = 0
    /\ 0 <= p[1] /\ p[1] <= 100 * p[2]
    /\ p[1] * l[2] = 100 * l[1] * p[2]

\* some probes of the hop were answered and some were lost
C12_Witness ==
    /\ hs.sent >= 3 /\ hs.received > 0 /\ hs.received < hs.sent
    /\ lossRate(hs)[1] > 0

\* C13: stdDevRTT() is zero with fewer than two samples, and otherwise the
\* square root (truncated to a duration) of the sum of the squared deviations
\* of the received samples from avgRTT(), divided by n - 1; the samples 10ms,
\* 20ms, 30ms give avg 20ms, best 10ms, worst 30ms, stddev 10ms.
C13_StdDev ==
    LET n == hs.received
        s == stdDevRTT(hs)
        d == Deviations(hs, Len(hs.rtts)) IN
    /\ Len(hs.rtts) = n
    /\ n < 2 => s = 0
    /\ n >= 2 => /\ s >= 0
                 /\ s * s * (n - 1) <= d
                 /\ d < (s + 1) * (s + 1) * (n - 1)
    /\ hs.rtts = <<10, 20, 30>> =>
         /\ avgRTT(hs) = 20 /\ hs.bestRTT = 10 /\ hs.worstRTT = 30
         /\ s = 10

\* the samples 10ms, 20ms, 30ms were recorded, along with a lost probe
C13_Witness ==
    /\ hs.rtts = <<10, 20, 30>>
    /\ hs.sent > hs.received
    /\ stdDevRTT(hs) = 10

\* the distance between two counts of increments that lie close together
Distance(a, b) ==
    LET d == (a[1] - b[1]) * Limb + (a[2] - b[2]) IN IF d < 0 THEN 0 - d ELSE d

\* C14: for any interleaving of concurrent Get calls on one IcmpID, the k-th
\* increment returns k mod 65535, no increment is lost or handed out twice,
\* and two calls return the same identifier only if the counter advanced by
\* at least 65535 between them.
C14_GetFollowsCounter ==
    \A x, y \in gets.returned :
        /\ x.id = WideMod(x.n, IDModulus)
        /\ x # y => x.n # y.n
        /\ (x # y /\ x.id = y.id) => Distance(x.n, y.n) >= IDModulus

\* a step of the receive loop: one packet read and handled
LoopStep == ic.pc = "read" /\ ic' # ic

\* an inbound packet that is unparseable, truncated, or a Time Exceeded whose
\* quoted datagram is too short or is no echo message
Malformed(ev) ==
    \/ ev.kind = "garbage"
    \/ ev.kind = "timeExceeded" /\ ev.embedded # "echo"

\* an Echo Reply that carries the probe's identifier and payload
MatchingReply(ev, c) ==
    ev.kind = "echoReply" /\ ev.id = c.echoID /\ ev.data = Payload(c.seq)

\* the call returned success with the sender of ev as responding address
ReturnedFrom(c, ev) ==
    /\ c.pc = "ret" /\ c.err = Nil
    /\ ~c.r.isNil /\ c.r.Success
    /\ c.r.Address = IPString(ev.peer)

\* C15: while an ICMP probe waits for its reply, every malformed inbound
\* packet is discarded - the receive loop neither returns nor crashes - and a
\* matching reply that arrives afterwards is still returned as success.
C15_MalformedDiscarded ==
    [][LoopStep =>
         /\ Malformed(ic'.last) =>
               ic'.pc = "read" /\ ic'.discarded = ic.discarded + 1
         /\ (ic.discarded > 0 /\ MatchingReply(ic'.last, ic)) =>
               ReturnedFrom(ic', ic'.last)]_vars

\* C16: the receive loop accepts an Echo Reply only if its identifier is the
\* probe's echoID and its payload is the payload sent (the sequence number,
\* then the marker byte); every other Echo Reply is discarded and the loop
\* keeps reading; an accepted reply yields success with the reply's source
\* as the responding address.
C16_EchoReplyFilter ==
    [][(LoopStep /\ ic'.last.kind = "echoReply") =>
         IF ic'.last.id = ic.echoID /\ ic'.last.data = Payload(ic.seq)
         THEN ReturnedFrom(ic', ic'.last)
         ELSE ic'.pc = "read" /\ ic'.discarded = ic.discarded + 1]_vars

\* an Echo Reply was accepted after an earlier packet had been discarded
C16_Witness ==
    /\ ic.cause = "reply"
    /\ ic.last.kind = "echoReply"
    /\ ic.discarded = 1
    /\ ~ic.isIPv6
    /\ ReturnedFrom(ic, ic.last)

\* C17: the receive loop accepts a Time Exceeded only if the echo message
\* quoted in it carries the probe's echoID and the probe's sequence number;
\* an accepted message yields success with the router that sent it as the
\* responding address; a Time Exceeded whose quoted id or sequence differs
\* is ignored and the loop keeps reading.
C17_TimeExceededFilter ==
    [][(LoopStep /\ ic'.last.kind = "timeExceeded") =>
         /\ ic'.pc = "ret" =>
               /\ ic'.last.embedded = "echo"
               /\ ic'.last.id = ic.echoID /\ ic'.last.seq = ic.seq
               /\ ReturnedFrom(ic', ic'.last)
         /\ (/\ ic'.last.embedded = "echo"
             /\ ic'.last.id # ic.echoID \/ ic'.last.seq # ic.seq) =>
               ic'.pc = "read" /\ ic'.discarded = ic.discarded + 1]_vars

\* a router's Time Exceeded was accepted by a probe of another host
C17_Witness ==
    /\ ic.cause = "reply"
    /\ ic.last.kind = "timeExceeded"
    /\ ic.isIPv6
    /\ ic.r.Address = IPString(ic.last.peer)
    /\ ic.r.Address # ic.target.Address

\* C18: each icmpIPv4 / icmpIPv6 call opens at most one raw socket and, if it
\* opened one, has closed it when it returns, whatever the exit path; within
\* one MTR sweep a socket is open only while a probe is in progress and none
\* is open between probes or after Probe returned.
C18_SocketClosedOnReturn ==
    /\ ic.opens <= 1
    /\ ic.sock = "open" => ic.pc \in {"setttl", "deadline", "write", "read"}
    /\ ic.pc \in {"ret", "panic"} =>
         ic.sock = IF ic.opens = 1 THEN "closed" ELSE "none"
    /\ mpc \in {"loop", "extra", "compile", "done"} => ic.sock # "open"

\* an additional probe of a sweep timed out and returned, its socket closed
C18_Witness ==
    /\ mpc = "xhop"
    /\ ic.pc = "ret" /\ ic.cause = "timeout"
    /\ ic.opens = 1 /\ ic.sock = "closed"

\* the hops of the result that carry the target address
TargetHops == {k \in 1..Len(r.Hops) : r.Hops[k].Address = target.Address}

\* C19: in an MTR sweep with Count = c >= 1 in which the target address
\* answers at some ttl k <= MaxHops, the result holds exactly one hop for the
\* target address and that hop has sent >= c, whatever became of the c - 1
\* additional probes.
\* (Refuted: an additional probe that fails or times out is not counted.)
C19_TargetHopCountsEveryProbe ==
    (mpc = "done" /\ target.Count >= 1 /\ hist.targetAt > 0) =>
        /\ Cardinality(TargetHops) = 1
        /\ \A k \in TargetHops : r.Hops[k].Sent >= target.Count

\* C20: every MTRHop of the result is a snapshot of its hopStat at assembly
\* time: address, sent, received, lastRTT, bestRTT and worstRTT are the
\* hopStat's fields, avgRTT is avgRTT(), loss is lossRate() * 100 and
\* stddevRTT is stdDevRTT().
\* (Refuted: Probe never assigns StdDevRTT, it stays zero.)
C20_HopIsSnapshot ==
    (mpc = "done") =>
        \A k \in 1..Len(r.Hops) :
            LET hop == r.Hops[k]
                st  == hopStats[hop.Address] IN
            /\ hop.Address = st.address
            /\ hop.TTL = st.ttl
            /\ hop.Sent = st.sent /\ hop.Received = st.received
            /\ hop.LastRTT = st.lastRTT
            /\ hop.BestRTT = st.bestRTT /\ hop.WorstRTT = st.worstRTT
            /\ hop.AvgRTT = avgRTT(st)
            /\ hop.Loss[1] * lossRate(st)[2] = 100 * lossRate(st)[1] * hop.Loss[2]
            /\ hop.StdDevRTT = stdDevRTT(st)

\* C21: the read deadline of a call is set once, to the time of setting plus
\* the timeout, before the request is sent, and never extended: every packet
\* the receive loop reads leaves less time until the deadline, and the loop
\* ends by returning - with a match, on the deadline or on a socket error.
\* (Refuted: on the malformed Time Exceeded of C15 the loop panics, and the
\* call never returns.)
C21_DeadlineBoundsTheWait ==
    [][/\ ic'.deadlines <= 1
       /\ ic'.sent > 0 => ic'.deadlines = 1
       /\ (ic.pc = "deadline" /\ ic'.pc = "write") => ic'.left = ic.target.Timeout
       /\ (ic.pc = "write" /\ ic'.pc = "read") => ic'.left = ic.left
       /\ LoopStep =>
             \/ ic'.pc = "ret"
             \/ ic'.pc = "read" /\ ic'.left < ic.left]_vars

\* C22: a TCP or HTTP Probe always returns a result and, for a dial or
\* request failure, a nil error, the failure in result.Error() and IsSuccess()
\* false; a probe that completed its exchange has Error() nil and IsSuccess()
\* true.  (Refuted: HTTPProber.Probe never sets Success.)
C22_DialProbeReport ==
    dial.pc = "ret" =>
        /\ ~dial.isNil
        /\ dial.cause \in {"dial", "request", "do"} =>
              dial.err = "nil" /\ dial.r.Err # "nil" /\ ~dial.r.Success
        /\ dial.cause = "done" => dial.r.Err = "nil" /\ dial.r.Success

\* C23: update(rtt) always adds 1 to sent and never changes ttl or address;
\* for rtt > 0 it adds 1 to received, stores rtt in lastRTT, adds it to sumRTT,
\* appends it to the samples, and makes bestRTT the minimum (the first sample
\* seeding it) and worstRTT the maximum; for rtt <= 0 it changes nothing else.
C23_UpdateEffect ==
    \A rtt \in RTTs :
        LET h == update(hs, rtt) IN
        /\ h.sent = hs.sent + 1
        /\ h.ttl = hs.ttl
        /\ h.address = hs.address
        /\ rtt > 0 =>
              /\ h.received = hs.received + 1
              /\ h.lastRTT = rtt
              /\ h.sumRTT = hs.sumRTT + rtt
              /\ h.rtts = Append(hs.rtts, rtt)
              /\ h.bestRTT = IF hs.received = 0 \/ rtt < hs.bestRTT
                             THEN rtt ELSE hs.bestRTT
              /\ h.worstRTT = IF rtt > hs.worstRTT THEN rtt ELSE hs.worstRTT
        /\ rtt <= 0 =>
              /\ h.received = hs.received
              /\ h.lastRTT = hs.lastRTT
              /\ h.bestRTT = hs.bestRTT
              /\ h.worstRTT = hs.worstRTT
              /\ h.sumRTT = hs.sumRTT
              /\ h.rtts = hs.rtts

\* a hopStat that took an absent sample and two unequal samples, the larger
\* one first
C23_Witness ==
    /\ hs.sent > hs.received
    /\ hs.received >= 2
    /\ hs.lastRTT = hs.bestRTT
    /\ hs.bestRTT < hs.worstRTT

\* C24: within one sweep the aggregator's addresses only grow; no entry is
\* removed or replaced, getOrCreateHopStat of a known address returns the map
\* unchanged, and an update of one address leaves every other entry unchanged.
C24_StatsOnlyGrow ==
    [][mpc' \notin {"idle", "loop"} \/ mpc \notin {"idle", "done"} =>
        /\ DOMAIN hopStats \subseteq DOMAIN hopStats'
        /\ Cardinality(DOMAIN hopStats') <= Cardinality(DOMAIN hopStats) + 1
        /\ \A a \in DOMAIN hopStats :
              /\ getOrCreateHopStat(hopStats, a) = hopStats
              /\ hopStats'[a].ttl = hopStats[a].ttl
              /\ hopStats'[a].address = hopStats[a].address
              /\ hopStats'[a].sent >= hopStats[a].sent
              /\ hopStats'[a].received >= hopStats[a].received
              /\ a # stat' => hopStats'[a] = hopStats[a]]_vars

\* an address that is already known answered again while another address is
\* known too
C24_Witness ==
    /\ Cardinality(DOMAIN hopStats) >= 2
    /\ \E a \in DOMAIN hopStats : hopStats[a].sent >= 2 /\ a # target.Address

RECURSIVE SumOfRTT(_)
SumOfRTT(S) ==
    IF S = {} THEN 0
    ELSE LET a == CHOOSE x \in S : TRUE IN hopStats[a].sumRTT + SumOfRTT(S \ {a})

\* C26: the Duration of the MTRResult Probe returns is the elapsed time of the
\* sweep: at least the sum of the elapsed times of the answered probes, so not
\* zero when a hop was recorded with a positive round-trip time.  (Refuted:
\* Probe never measures the sweep, Duration keeps its zero value.)
C26_DurationCoversSweep ==
    mpc = "done" =>
        /\ r.Duration >= SumOfRTT(DOMAIN hopStats)
        /\ (\E k \in 1..Len(r.Hops) : r.Hops[k].LastRTT > 0) => r.Duration > 0

\* C27: the probes of one sweep carry pairwise different echo identifiers:
\* the identifier of a request being sent is not that of an earlier request of
\* the sweep.  (Refuted: probeHop makes a new ICMPProber, with a new IcmpID,
\* for every probe, so every request carries identifier 1.)
C27_SweepIdentifiersDiffer ==
    [][(mpc # "idle" /\ ic'.sent > ic.sent) =>
          \A q \in hist.requests : q[1] # ic.echoID]_vars

\* ev answers the echo request q = <<identifier, sequence number>>: the Echo
\* Reply to it, or a Time Exceeded quoting it
RepliesTo(ev, q) ==
    \/ ev.kind = "echoReply" /\ ev.id = q[1] /\ ev.data = Payload(q[2])
    \/ ev.kind = "timeExceeded" /\ ev.embedded = "echo" /\ ev.id = q[1] /\ ev.seq = q[2]

\* C28: a probe never accepts a reply elicited by another probe; within one
\* sweep, the probe of a later ttl never accepts the reply to the request an
\* earlier ttl sent.  (Refuted: all probes carry identifier 1 and the same
\* sequence number, the code bug of C27.)
C28_NoLateReplyAccepted ==
    (mpc = "hop" /\ ic.pc = "read") =>
        \A q \in hist.requests :
            \A ev \in IF ic.isIPv6 THEN Events6 ELSE Events4 :
                RepliesTo(ev, q) =>
                    "match" # (IF ic.isIPv6
                               THEN listenForSpecific6(ev, Payload(ic.seq), ic.echoID, ic.seq)
                               ELSE listenForSpecific4(ev, Payload(ic.seq), ic.echoID, ic.seq))

\* the probes counted as sent over all hops
RECURSIVE SumOfSent(_)
SumOfSent(S) ==
    IF S = {} THEN 0
    ELSE LET a == CHOOSE x \in S : TRUE IN hopStats[a].sent + SumOfSent(S \ {a})

C30_HopTTLsAreRanks ==
    [][/\ \A a \in DOMAIN hopStats' \ DOMAIN hopStats :
             /\ mpc = "hop" /\ a = ic.r.Address
             /\ hopStats'[a].ttl = Cardinality(DOMAIN hopStats) + 1
             /\ hopStats'[a].ttl <= ttl
             /\ Cardinality(DOMAIN hopStats) < ttl - 1 => hopStats'[a].ttl < ttl
       /\ mpc' = "done" =>
             /\ Len(r'.Hops) = Cardinality(hist'.answered)
             /\ \A k \in 1..Len(r'.Hops) : r'.Hops[k].TTL = k]_vars

\* C31: an MTR Probe call issues a bounded number of probes: every probe
\* raises the count of probes issued by one, the count never exceeds the
\* effective MaxHops plus max(GetCount() - 1, 0), and the sum of sent over all
\* hops never exceeds it.
C31_ProbesBounded ==
    [][/\ ProbeIssued => hist'.issued = hist.issued + 1
       /\ hist'.issued <= EffectiveMaxHops'
                          + (IF GetCount(target') - 1 > 0
                             THEN GetCount(target') - 1 ELSE 0)
       /\ SumOfSent(DOMAIN hopStats)' <= hist'.issued]_vars

\* a sweep with the default MaxHops and Count 2 that issued all 31 probes the
\* bound allows, not all of them answered
C31_Witness ==
    /\ mpc = "done"
    /\ target.MaxHops = 0
    /\ target.Count = 2
    /\ hist.issued = 31
    /\ SumOfSent(DOMAIN hopStats) < hist.issued
    /\ SumOfSent(DOMAIN hopStats) >= 2

====
